---- MODULE Spec2Model ----
(***************************************************************************)
(* Model of fl5-lib/python/neuralfoil_bridge.py: the Cl-targeting solve    *)
(* analyze_foil_at_cls, the batched alpha sweep analyze_foil_at_alphas and *)
(* the stdin/stdout entry point run_cli_mode.                              *)
(*                                                                         *)
(* Numbers.  Lift coefficients are counted in units of 0.0005 and angles   *)
(* in units of 0.0005 degree, so that "x * 10.0" of the source is "x * 10" *)
(* here, the tolerance 0.001 is 2 units and the clamp 20.0 is 40000 units. *)
(* IEEE-754 NaN is the one float that the integers do not have; it is the  *)
(* value NaN below and every arithmetic operator and comparison treats it  *)
(* as Python does (arithmetic propagates it, comparisons with it are       *)
(* false).                                                                 *)
(***************************************************************************)
EXTENDS Integers, Sequences, FiniteSets, TLC

\* ---------------------------------------------------------------- bounds
\* Largest number of span stations of one batch.
MaxStations == 2

\* ------------------------------------------------------- program constants
\* range(20): the iteration cap of the per-station solve.
MaxIter == 20
\* 0.001, the convergence tolerance on Cl, in units of 0.0005.
Tol == 2
\* 20.0 degrees, the clamp on alpha, in units of 0.0005 degree.
AlphaMax == 40000
\* 10.0: the initial-guess factor and the update gain (degrees per unit Cl).
Gain == 10
\* float('nan'): a value outside every range the model's numbers take.
NaN == 99999999

\* ------------------------------------------------------------ float model
IsNaN(x) == x = NaN

\* a + b, a - b, a * k on floats.
FAdd(a, b) == IF IsNaN(a) \/ IsNaN(b) THEN NaN ELSE a + b
FSub(a, b) == IF IsNaN(a) \/ IsNaN(b) THEN NaN ELSE a - b
FMul(a, k) == IF IsNaN(a) THEN NaN ELSE a * k

\* a < b on floats: false as soon as one side is NaN.
FLt(a, b) == ~IsNaN(a) /\ ~IsNaN(b) /\ a < b

\* abs(x)
FAbs(x) == IF IsNaN(x) THEN NaN ELSE IF x < 0 THEN -x ELSE x

\* Python's builtin min(a, b) / max(a, b): the first argument is kept unless
\* the second compares strictly smaller / larger.
PyMin(a, b) == IF FLt(b, a) THEN b ELSE a
PyMax(a, b) == IF FLt(a, b) THEN b ELSE a

\* A clamp that forgets the lower bound.
ClampUpperOnly(x) == PyMin(AlphaMax, x)

\* A clamp that forgets the upper bound.
ClampLowerOnly(x) == PyMax(-AlphaMax, x)

\* max(-20.0, min(20.0, alpha_guess))
Clamp(x) == PyMax(-AlphaMax, PyMin(AlphaMax, x))

\* -20 <= x <= 20 (false of NaN).
InRange(x) == ~IsNaN(x) /\ -AlphaMax <= x /\ x <= AlphaMax

\* abs(cl_error) < 0.001
IsConverged(cl_error) == FLt(FAbs(cl_error), Tol)

\* target_cl * 10.0
InitialGuess(target_cl) == FMul(target_cl, Gain)

\* ------------------------------------------------------------- evaluator
\* The aerodynamic evaluator is an external library.  It is a function of
\* the geometry, alpha and Re; the geometry selects one of these lift
\* curves (the ideal curve of the solver is CL = alpha / 10):
\*   linear   CL = alpha / 10            (the solver's own assumption)
\*   shallow  CL = alpha / 20            (converges geometrically)
\*   steep    CL = alpha / 5             (the fixed-gain update oscillates)
\*   flat     CL = 0                     (fully stalled: alpha runs to the clamp)
\*   offset   CL = alpha / 10 - Tol      (the error is exactly the tolerance)
\*   nan      CL = NaN                   (the network produced no number)
CurveSet == {"linear", "shallow", "steep", "flat", "offset", "nan"}

\* Reynolds numbers of a station: a low one costs one unit of lift.
ReSet == {1, 2}
ReLoss(re) == IF re = 1 THEN 1 ELSE 0

CurveCL(curve, alpha, re) ==
    IF IsNaN(alpha) \/ curve = "nan" THEN NaN
    ELSE LET base == CASE curve = "linear"  -> alpha \div 10
                       [] curve = "shallow" -> alpha \div 20
                       [] curve = "steep"   -> alpha \div 5
                       [] curve = "flat"    -> 0
                       [] curve = "offset"  -> (alpha \div 10) - Tol
         IN base - ReLoss(re)

\* One operating point: the dictionary get_aero_from_neuralfoil returns for
\* one (alpha, Re).
OperatingPoint(curve, alpha, re) ==
    LET cl == CurveCL(curve, alpha, re)
        a  == IF IsNaN(alpha) THEN 0 ELSE alpha \div 1000
    IN [CL      |-> cl,
        CD      |-> IF IsNaN(cl) THEN NaN ELSE 10 + a * a + re,
        CM      |-> IF IsNaN(cl) THEN NaN ELSE -(a + re),
        Top_Xtr |-> IF IsNaN(cl) THEN NaN ELSE 500 - a,
        Bot_Xtr |-> IF IsNaN(cl) THEN NaN ELSE 700 + a]

\* A numpy value: a 1-d array of floats, or a scalar.
NdArray(seq) == [kind |-> "ndarray", data |-> seq]
Scalar(x)    == [kind |-> "scalar", data |-> <<x>>]

\* np.atleast_1d(v)[0]
AtLeast1dFirst(v) == v.data[1]

\* The evaluator called with a scalar alpha and a scalar Re; ret_kind is
\* whether this build of the library hands back 0-d or 1-element values.
EvalScalar(curve, ret_kind, alpha, re) ==
    LET p == OperatingPoint(curve, alpha, re)
        W(x) == IF ret_kind = "scalar" THEN Scalar(x) ELSE NdArray(<<x>>)
    IN [CL |-> W(p.CL), CD |-> W(p.CD), CM |-> W(p.CM),
        Top_Xtr |-> W(p.Top_Xtr), Bot_Xtr |-> W(p.Bot_Xtr)]

\* ------------------------------------------------------------------ state
VARIABLES
    pc,          \* position in the running entry point
    mode,        \* "none", "cls", "alphas" or "cli": the entry point called
    stdin,       \* what standard input holds (CLI mode)
    geometry_ok, \* whether x_coords / y_coords build an airfoil
    curve,       \* the lift curve the geometry gives the evaluator
    ret_kind,    \* shape of the evaluator's values
    cl_values,   \* target lift coefficients, one per station
    alpha_values,\* angles of attack, one per station (alpha sweep)
    re_values,   \* Reynolds numbers, one per station
    results,     \* the dictionary under construction
    i,           \* station index, 1-based
    target_cl,
    re,
    alpha_guess,
    iteration,   \* loop variable of "for iteration in range(20)"
    aero,        \* last dictionary the evaluator returned
    cl_error,
    ret,         \* value the analyze_* function returned (NoReturn before)
    exc,         \* str(e) of the exception last raised ("none" before)
    stdout,      \* JSON objects printed, in order
    exit_code,   \* -1 while the process runs
    \* history variables
    eval_alpha,  \* alpha passed in the last evaluator call
    evals,       \* evaluator calls made for the current station
    ncalls,      \* evaluator calls made in the whole run
    point_alpha, \* per stored station, the alpha its stored values were evaluated at
    fail_station \* station at which the analysis raised (0: before the first; -1: never)

vars == <<pc, mode, stdin, geometry_ok, curve, ret_kind, cl_values, alpha_values, re_values,
          results, i, target_cl, re, alpha_guess, iteration, aero, cl_error,
          ret, exc, stdout, exit_code, eval_alpha, evals, ncalls, point_alpha,
          fail_station>>

\* Target lift coefficients: -1.5, 0.5 and the pathological 100.
TargetSet == {-3000, 1000, 200000}

SeqsUpTo(S, n) == UNION {[1..k -> S] : k \in 0..n}

EmptyResults ==
    [success |-> TRUE, alpha |-> <<>>, cd |-> <<>>, cl |-> <<>>, cm |-> <<>>,
     xtr_top |-> <<>>, xtr_bot |-> <<>>]

\* The failure envelope of the analyze_* functions.
Failure(msg) ==
    [success |-> FALSE, error |-> msg, alpha |-> <<>>, cd |-> <<>>, cl |-> <<>>,
     cm |-> <<>>, xtr_top |-> <<>>, xtr_bot |-> <<>>]

NoReturn == [returned |-> FALSE]
Returned == "success" \in DOMAIN ret

NoAero == [CL |-> Scalar(0), CD |-> Scalar(0), CM |-> Scalar(0),
           Top_Xtr |-> Scalar(0), Bot_Xtr |-> Scalar(0)]

Init ==
    /\ pc = "idle"
    /\ mode = "none"
    /\ stdin = "none"
    /\ geometry_ok = TRUE
    /\ curve = "linear"
    /\ ret_kind = "scalar"
    /\ cl_values = <<>>
    /\ alpha_values = <<>>
    /\ re_values = <<>>
    /\ results = EmptyResults
    /\ i = 1
    /\ target_cl = 0
    /\ re = 2
    /\ alpha_guess = 0
    /\ iteration = 0
    /\ aero = NoAero
    /\ cl_error = 0
    /\ ret = NoReturn
    /\ exc = "none"
    /\ stdout = <<>>
    /\ exit_code = -1
    /\ eval_alpha = 0
    /\ evals = 0
    /\ ncalls = 0
    /\ point_alpha = <<>>
    /\ fail_station = -1

\* The arguments of a call and what standard input holds.
args == <<stdin, geometry_ok, curve, ret_kind, cl_values, alpha_values, re_values>>
\* The locals of the per-station solve.
solve == <<target_cl, re, alpha_guess, iteration, cl_error>>
\* The process's output.
output == <<stdout, exit_code>>

\* Where control goes when analyze_foil_at_cls returns: to its caller in
\* run_cli_mode (line 240), or to the direct caller.
AfterReturn == IF mode = "cli" THEN "cli_print" ELSE "done"

\* The arguments of a call, drawn from the bounded sets.
ChooseArgs ==
    /\ geometry_ok' \in BOOLEAN
    /\ curve' \in CurveSet
    /\ ret_kind' \in {"scalar", "ndarray"}
    /\ re_values' \in SeqsUpTo(ReSet, MaxStations)

\* ------------------------------------------------- analyze_foil_at_cls
\* A direct call of analyze_foil_at_cls.
CallCls ==
    /\ pc = "idle"
    /\ mode' = "cls"
    /\ ChooseArgs
    /\ cl_values' \in SeqsUpTo(TargetSet, MaxStations)
    /\ pc' = "cls_enter"
    /\ UNCHANGED <<stdin, alpha_values, results, i, solve, aero, ret, exc, output,
                   eval_alpha, evals, ncalls, point_alpha, fail_station>>

\* Lines 64-78: build the airfoil and the empty results.
ClsEnter ==
    /\ pc = "cls_enter"
    /\ IF geometry_ok
       THEN /\ results' = EmptyResults
            /\ i' = 1
            /\ pc' = "station"
            /\ UNCHANGED <<exc, fail_station>>
       ELSE \* np.column_stack or Airfoil raises
            /\ exc' = "all the input array dimensions must match"
            /\ fail_station' = 0
            /\ pc' = "cls_except"
            /\ UNCHANGED <<results, i>>
    /\ UNCHANGED <<mode, args, solve, aero, ret, output, eval_alpha, evals, ncalls,
                   point_alpha>>

\* Lines 80-88: the head of the station loop, up to the first iteration.
StationBegin ==
    /\ pc = "station"
    /\ IF i > Len(cl_values)
       THEN /\ pc' = "cls_return"
            /\ UNCHANGED <<solve, evals, exc, fail_station>>
       ELSE IF i > Len(re_values)
       THEN \* re_values[i] raises IndexError
            /\ target_cl' = cl_values[i]
            /\ exc' = "list index out of range"
            /\ fail_station' = i
            /\ pc' = "cls_except"
            /\ UNCHANGED <<re, alpha_guess, iteration, cl_error, evals>>
       ELSE /\ target_cl' = cl_values[i]
            /\ re' = re_values[i]
            /\ alpha_guess' = InitialGuess(cl_values[i])
            /\ iteration' = 0
            /\ evals' = 0
            /\ pc' = "eval"
            /\ UNCHANGED <<cl_error, exc, fail_station>>
    /\ UNCHANGED <<mode, args, results, i, aero, ret, output, eval_alpha, ncalls,
                   point_alpha>>

\* Lines 89-100: one evaluator call, which returns or raises.
Evaluate ==
    /\ pc = "eval"
    /\ eval_alpha' = alpha_guess
    /\ evals' = evals + 1
    /\ ncalls' = ncalls + 1
    /\ \/ /\ aero' = EvalScalar(curve, ret_kind, alpha_guess, re)
          /\ cl_error' = FSub(target_cl, AtLeast1dFirst(aero'.CL))
          /\ pc' = "check"
          /\ UNCHANGED <<exc, fail_station>>
       \/ /\ exc' \in {"", "evaluator error"}
          /\ fail_station' = i
          /\ pc' = "cls_except"
          /\ UNCHANGED <<aero, cl_error>>
    /\ UNCHANGED <<mode, args, results, i, target_cl, re, alpha_guess, iteration, ret,
                   output, point_alpha>>

\* Lines 102-103: converged, leave the loop.
Converged ==
    /\ pc = "check"
    /\ IsConverged(cl_error)
    /\ pc' = "store"
    /\ UNCHANGED <<mode, args, results, i, solve, aero, ret, exc, output, eval_alpha,
                   evals, ncalls, point_alpha, fail_station>>

\* A loop that runs one iteration too many.
UpdateOffByOne ==
    /\ pc = "check"
    /\ ~IsConverged(cl_error)
    /\ alpha_guess' = Clamp(FAdd(alpha_guess, FMul(cl_error, Gain)))
    /\ IF iteration + 1 <= MaxIter
       THEN /\ iteration' = iteration + 1
            /\ pc' = "eval"
       ELSE /\ pc' = "store"
            /\ UNCHANGED iteration
    /\ UNCHANGED <<mode, args, results, i, target_cl, re, cl_error, aero, ret, exc,
                   output, eval_alpha, evals, ncalls, point_alpha, fail_station>>

\* A loop that treats running out of iterations as an error.
UpdateRaisesWhenExhausted ==
    /\ pc = "check"
    /\ ~IsConverged(cl_error)
    /\ alpha_guess' = Clamp(FAdd(alpha_guess, FMul(cl_error, Gain)))
    /\ IF iteration + 1 < MaxIter
       THEN /\ iteration' = iteration + 1
            /\ pc' = "eval"
            /\ UNCHANGED <<exc, fail_station>>
       ELSE /\ exc' = "did not converge"
            /\ fail_station' = i
            /\ pc' = "cls_except"
            /\ UNCHANGED iteration
    /\ UNCHANGED <<mode, args, results, i, target_cl, re, cl_error, aero, ret,
                   output, eval_alpha, evals, ncalls, point_alpha>>

\* Lines 105-109 and the loop's next(): update, clamp, then the next
\* iteration or, after the 20th, the end of the loop.
Update ==
    /\ pc = "check"
    /\ ~IsConverged(cl_error)
    /\ alpha_guess' = Clamp(FAdd(alpha_guess, FMul(cl_error, Gain)))
    /\ IF iteration + 1 < MaxIter
       THEN /\ iteration' = iteration + 1
            /\ pc' = "eval"
       ELSE /\ pc' = "store"
            /\ UNCHANGED iteration
    /\ UNCHANGED <<mode, args, results, i, target_cl, re, cl_error, aero, ret, exc,
                   output, eval_alpha, evals, ncalls, point_alpha, fail_station>>

\* Lines 111-117: append the station's values.
Store ==
    /\ pc = "store"
    /\ results' = [results EXCEPT
                     !.alpha   = Append(@, alpha_guess),
                     !.cd      = Append(@, AtLeast1dFirst(aero.CD)),
                     !.cl      = Append(@, AtLeast1dFirst(aero.CL)),
                     !.cm      = Append(@, AtLeast1dFirst(aero.CM)),
                     !.xtr_top = Append(@, AtLeast1dFirst(aero.Top_Xtr)),
                     !.xtr_bot = Append(@, AtLeast1dFirst(aero.Bot_Xtr))]
    /\ point_alpha' = Append(point_alpha, eval_alpha)
    /\ i' = i + 1
    /\ pc' = "station"
    /\ UNCHANGED <<mode, args, solve, aero, ret, exc, output, eval_alpha, evals,
                   ncalls, fail_station>>

\* Line 119: return results.
ClsReturn ==
    /\ pc = "cls_return"
    /\ ret' = results
    /\ pc' = AfterReturn
    /\ UNCHANGED <<mode, args, results, i, solve, aero, exc, output, eval_alpha,
                   evals, ncalls, point_alpha, fail_station>>

\* A handler that hands back the stations computed before the failure.
ClsExceptPartial ==
    /\ pc = "cls_except"
    /\ ret' = [results EXCEPT !.success = FALSE] @@ [error |-> exc]
    /\ pc' = AfterReturn
    /\ UNCHANGED <<mode, args, results, i, solve, aero, exc, output, eval_alpha,
                   evals, ncalls, point_alpha, fail_station>>

\* Lines 121-131: except Exception: return the failure envelope.
ClsExcept ==
    /\ pc = "cls_except"
    /\ ret' = Failure(exc)
    /\ pc' = AfterReturn
    /\ UNCHANGED <<mode, args, results, i, solve, aero, exc, output, eval_alpha,
                   evals, ncalls, point_alpha, fail_station>>

\* ----------------------------------------------- analyze_foil_at_alphas
\* Angles of the sweep: -2, 0 and 5 degrees.
AlphaSet == {-4000, 0, 10000}

\* np.array(list)
NpArray(list) == NdArray(list)

\* numpy broadcasting of two 1-d shapes: the common length, or -1 when the
\* shapes do not broadcast.
BroadcastLen(a, b) ==
    IF a = b THEN a ELSE IF a = 1 THEN b ELSE IF b = 1 THEN a ELSE -1

\* Element k of a 1-d array broadcast to a longer shape.
BroadcastAt(v, k) == IF Len(v.data) = 1 THEN v.data[1] ELSE v.data[k]

\* The evaluator called once with array alpha and Re: one operating point
\* per broadcast station, as arrays (or as 0-d values for a single station
\* when the library squeezes them).
EvalBatch(crv, kind, alphas, res) ==
    LET n == BroadcastLen(Len(alphas.data), Len(res.data))
        P(k) == OperatingPoint(crv, BroadcastAt(alphas, k), BroadcastAt(res, k))
        W(seq) == IF kind = "scalar" /\ n = 1 THEN Scalar(seq[1]) ELSE NdArray(seq)
    IN [CL      |-> W([k \in 1..n |-> P(k).CL]),
        CD      |-> W([k \in 1..n |-> P(k).CD]),
        CM      |-> W([k \in 1..n |-> P(k).CM]),
        Top_Xtr |-> W([k \in 1..n |-> P(k).Top_Xtr]),
        Bot_Xtr |-> W([k \in 1..n |-> P(k).Bot_Xtr])]

\* A conversion that keeps only the first element: [float(v[0])].
ToListFirstOnly(v) == IF v.data = <<>> THEN <<>> ELSE <<v.data[1]>>

\* v.tolist() if isinstance(v, np.ndarray) else [float(v)]
ToList(v) == IF v.kind = "ndarray" THEN v.data ELSE <<v.data[1]>>

\* A direct call of analyze_foil_at_alphas.
CallAlphas ==
    /\ pc = "idle"
    /\ mode' = "alphas"
    /\ ChooseArgs
    /\ alpha_values' \in SeqsUpTo(AlphaSet, MaxStations)
    /\ pc' = "alphas_enter"
    /\ UNCHANGED <<stdin, cl_values, results, i, solve, aero, ret, exc, output,
                   eval_alpha, evals, ncalls, point_alpha, fail_station>>

\* Lines 162-178: build the airfoil and make the one batched evaluator call.
AlphasEvaluate ==
    /\ pc = "alphas_enter"
    /\ IF ~geometry_ok
       THEN /\ exc' = "all the input array dimensions must match"
            /\ fail_station' = 0
            /\ pc' = "alphas_except"
            /\ UNCHANGED <<aero, ncalls>>
       ELSE /\ ncalls' = ncalls + 1
            /\ IF BroadcastLen(Len(alpha_values), Len(re_values)) < 0
               THEN \* the shapes do not broadcast: the evaluator raises
                    /\ exc' = "operands could not be broadcast together"
                    /\ fail_station' = 0
                    /\ pc' = "alphas_except"
                    /\ UNCHANGED aero
               ELSE \/ /\ aero' = EvalBatch(curve, ret_kind, NpArray(alpha_values),
                                            NpArray(re_values))
                       /\ pc' = "alphas_return"
                       /\ UNCHANGED <<exc, fail_station>>
                    \/ /\ exc' \in {"", "evaluator error"}
                       /\ fail_station' = 0
                       /\ pc' = "alphas_except"
                       /\ UNCHANGED aero
    /\ UNCHANGED <<mode, args, results, i, solve, ret, output, eval_alpha, evals,
                   point_alpha>>

\* Lines 181-189: convert to lists and return.
AlphasReturn ==
    /\ pc = "alphas_return"
    /\ ret' = [success |-> TRUE,
               alpha   |-> ToList(NpArray(alpha_values)),
               cd      |-> ToList(aero.CD),
               cl      |-> ToList(aero.CL),
               cm      |-> ToList(aero.CM),
               xtr_top |-> ToList(aero.Top_Xtr),
               xtr_bot |-> ToList(aero.Bot_Xtr)]
    /\ pc' = "done"
    /\ UNCHANGED <<mode, args, results, i, solve, aero, exc, output, eval_alpha,
                   evals, ncalls, point_alpha, fail_station>>

\* Lines 191-201: except Exception: return the failure envelope.
AlphasExcept ==
    /\ pc = "alphas_except"
    /\ ret' = Failure(exc)
    /\ pc' = "done"
    /\ UNCHANGED <<mode, args, results, i, solve, aero, exc, output, eval_alpha,
                   evals, ncalls, point_alpha, fail_station>>

\* ------------------------------------------------------- run_cli_mode
\* What standard input may hold: text that is no JSON, a JSON value that is
\* no object, an object lacking one required field, or a complete object.
RequiredFields == {"x_coords", "y_coords", "cl_values", "re_values"}
StdinSet == {"malformed", "not_object", "valid"} \cup {"missing_" \o f : f \in RequiredFields}

\* str(e) of what json.loads or the field lookup raises on such an input.
ParseError(in) ==
    CASE in = "malformed"  -> "Expecting value: line 1 column 1 (char 0)"
      [] in = "not_object" -> "list indices must be integers or slices, not str"
      [] OTHER             -> "'" \o in \o "'"

\* json.dumps(obj): the text of one JSON object with obj's members.
JsonDumps(obj) == [json |-> "object", members |-> obj]

\* The process started with --cli.
RunCli ==
    /\ pc = "idle"
    /\ mode' = "cli"
    /\ stdin' \in StdinSet
    /\ IF stdin' = "valid"
       THEN /\ ChooseArgs
            /\ cl_values' \in SeqsUpTo(TargetSet, MaxStations)
       ELSE UNCHANGED <<geometry_ok, curve, ret_kind, re_values, cl_values>>
    /\ pc' = "cli_parse"
    /\ UNCHANGED <<alpha_values, results, i, solve, aero, ret, exc, output,
                   eval_alpha, evals, ncalls, point_alpha, fail_station>>

\* A parser that reads re_values with a default instead of requiring it.
CliParseLax ==
    /\ pc = "cli_parse"
    /\ IF stdin \in {"valid", "missing_re_values"}
       THEN pc' = "cls_enter" /\ UNCHANGED exc
       ELSE pc' = "cli_except" /\ exc' = ParseError(stdin)
    /\ UNCHANGED <<mode, args, results, i, solve, aero, ret, output, eval_alpha,
                   evals, ncalls, point_alpha, fail_station>>

\* Lines 212-224: read stdin, parse it, extract the fields; then line 227
\* calls analyze_foil_at_cls.
CliParse ==
    /\ pc = "cli_parse"
    /\ IF stdin = "valid"
       THEN pc' = "cls_enter" /\ UNCHANGED exc
       ELSE pc' = "cli_except" /\ exc' = ParseError(stdin)
    /\ UNCHANGED <<mode, args, results, i, solve, aero, ret, output, eval_alpha,
                   evals, ncalls, point_alpha, fail_station>>

\* Lines 240-241: print the result and exit 0; json.dumps may raise
\* (MemoryError, whose str is empty) before anything is written.
CliPrint ==
    /\ pc = "cli_print"
    /\ \/ /\ stdout' = Append(stdout, JsonDumps(ret))
          /\ exit_code' = 0
          /\ pc' = "exited"
          /\ UNCHANGED exc
       \/ /\ exc' = ""
          /\ pc' = "cli_except"
          /\ UNCHANGED output
    /\ UNCHANGED <<mode, args, results, i, solve, aero, ret, eval_alpha, evals,
                   ncalls, point_alpha, fail_station>>

\* A handler that exits 1 without writing anything.
CliExceptSilent ==
    /\ pc = "cli_except"
    /\ exit_code' = 1
    /\ pc' = "exited"
    /\ UNCHANGED <<mode, args, results, i, solve, aero, ret, exc, stdout, eval_alpha,
                   evals, ncalls, point_alpha, fail_station>>

\* Lines 243-255: except Exception: print the error object and exit 1.
CliExcept ==
    /\ pc = "cli_except"
    /\ stdout' = Append(stdout, JsonDumps(Failure("CLI mode error: " \o exc)))
    /\ exit_code' = 1
    /\ pc' = "exited"
    /\ UNCHANGED <<mode, args, results, i, solve, aero, ret, exc, eval_alpha, evals,
                   ncalls, point_alpha, fail_station>>

Next ==
    \/ CallCls
    \/ ClsEnter
    \/ StationBegin
    \/ Evaluate
    \/ Converged
    \/ Update
    \/ Store
    \/ ClsReturn
    \/ ClsExcept
    \/ CallAlphas
    \/ AlphasEvaluate
    \/ AlphasReturn
    \/ AlphasExcept
    \/ RunCli
    \/ CliParse
    \/ CliPrint
    \/ CliExcept

Spec == Init /\ [][Next]_vars

\* ------------------------------------------------------------ properties
\* The run is inside analyze_foil_at_cls or has come back from it.
InCls == mode \in {"cls", "cli"}
\* The analysis function has returned to its caller.
ClsDone == InCls /\ Returned
\* The last evaluation of the current station left the loop by exhaustion.
Exhausted == pc = "store" /\ ~IsConverged(cl_error)
Last(seq) == seq[Len(seq)]
ResultKeys == {"alpha", "cd", "cl", "cm", "xtr_top", "xtr_bot"}
AllEmpty(r) == \A key \in ResultKeys : r[key] = <<>>

\* C1: every stored station is one operating point: the stored alpha is the
\* alpha at which the stored cl, cd, cm, xtr_top, xtr_bot were evaluated,
\* whether the loop ended by convergence or by exhausting its iterations.
C1_StoredAlphaIsEvaluatedAlpha ==
    InCls => \A k \in 1..Len(results.alpha) : results.alpha[k] = point_alpha[k]

\* C2: the process exits with status 0 only when the JSON object it wrote
\* has success = true (status 1 on any raised error, whatever stage raised).
C2_ExitZeroOnlyOnSuccess ==
    (pc = "exited" /\ exit_code = 0) => Last(stdout).members.success

\* C3: on every path of run_cli_mode exactly one JSON object is written
\* before the process exits, an object with success = false carries an
\* 'error' string, and every raise ends in the handler, never outside it.
C3_ExactlyOneObject ==
    /\ Len(stdout) <= 1
    /\ mode = "cli" =>
         /\ pc \in {"cli_parse", "cls_enter", "station", "eval", "check", "store",
                    "cls_return", "cls_except", "cli_print", "cli_except", "exited"}
         /\ pc # "exited" => stdout = <<>> /\ exit_code = -1
         /\ pc = "exited" =>
              /\ Len(stdout) = 1
              /\ exit_code \in {0, 1}
              /\ stdout[1].json = "object"
              /\ "success" \in DOMAIN stdout[1].members
              /\ ~stdout[1].members.success =>
                    /\ "error" \in DOMAIN stdout[1].members
                    /\ stdout[1].members.error \in STRING

\* C3 witness: the result was computed, json.dumps raised, and the process
\* exited having written the error object only.
C3_Witness ==
    /\ pc = "exited" /\ stdin = "valid" /\ Returned /\ ret.success
    /\ Len(ret.cl) = 1 /\ exit_code = 1 /\ Len(stdout) = 1

\* C4: when stdin is no JSON, or lacks a required field, the evaluator is
\* never called and the process writes success = false, a non-empty error
\* and six empty arrays, and exits with status 1.
C4_BadInputRejected ==
    (mode = "cli" /\ stdin # "valid") =>
        /\ ncalls = 0
        /\ ~Returned
        /\ pc = "exited" =>
             /\ Len(stdout) = 1
             /\ stdout[1].members.success = FALSE
             /\ stdout[1].members.error \in STRING
             /\ stdout[1].members.error # ""
             /\ AllEmpty(stdout[1].members)
             /\ exit_code = 1

\* C4 witness: a JSON object without re_values was rejected.
C4_Witness == pc = "exited" /\ stdin = "missing_re_values" /\ exit_code = 1

C6_ClampedAfterUpdate ==
    ((pc = "eval" /\ evals > 0) \/ Exhausted) => InRange(alpha_guess)

\* C6 witness: the pathological target 100 has been updated onto the clamp,
\* and a NaN lift coefficient has been updated onto it as well.
C6_Witness ==
    /\ pc = "eval" /\ evals > 0 /\ target_cl = 200000 /\ alpha_guess = AlphaMax
    /\ curve = "nan"

\* C7: when geometry construction or an evaluator call raises at station k,
\* no later evaluation is made, nothing propagates to the caller, and the
\* function returns success = false, an error string and six empty arrays,
\* dropping the stations already computed.
C7_RaiseAbortsBatch ==
    /\ [][InCls /\ fail_station >= 0 =>
             /\ ncalls' = ncalls /\ results' = results /\ fail_station' = fail_station
             /\ pc' \in {"cls_except", "done", "cli_print", "cli_except", "exited"}]_vars
    /\ [](InCls /\ pc = "cls_except" => fail_station >= 0)
    /\ [](ClsDone /\ fail_station >= 0 =>
             /\ ret.success = FALSE
             /\ "error" \in DOMAIN ret /\ ret.error \in STRING
             /\ AllEmpty(ret))

\* C7 witness: the evaluator raised at the second station after the first
\* had been stored, and the function has returned.
C7_Witness ==
    /\ mode = "cls" /\ pc = "done" /\ fail_station = 2 /\ Len(results.cl) = 1
    /\ evals > 0

\* C8: an alpha sweep over n stations whose evaluator does not raise returns
\* six arrays of length n, entry k being the evaluator's values at
\* (alpha_values[k], re_values[k]), the alphas unchanged and in order, after
\* exactly one evaluator call.
C8_SweepPreservesStations ==
    (mode = "alphas" /\ pc = "done" /\ fail_station = -1
        /\ Len(alpha_values) = Len(re_values)) =>
        /\ ret.success
        /\ ncalls = 1
        /\ ret.alpha = alpha_values
        /\ \A key \in ResultKeys : Len(ret[key]) = Len(alpha_values)
        /\ \A k \in 1..Len(alpha_values) :
              LET p == OperatingPoint(curve, alpha_values[k], re_values[k])
              IN /\ ret.cd[k] = p.CD /\ ret.cl[k] = p.CL /\ ret.cm[k] = p.CM
                 /\ ret.xtr_top[k] = p.Top_Xtr /\ ret.xtr_bot[k] = p.Bot_Xtr

\* C8 witness: a sweep over two different stations has returned.
C8_Witness ==
    /\ mode = "alphas" /\ pc = "done" /\ fail_station = -1
    /\ Len(alpha_values) = 2 /\ Len(re_values) = 2
    /\ alpha_values[1] # alpha_values[2] /\ re_values[1] # re_values[2]
    /\ ret.cd[1] # ret.cd[2]

\* C9: the solve loop of a station makes at least 1 and at most 20 evaluator
\* calls; it stops at the first evaluation within tolerance, with no further
\* call and no further update, and a station that ends its loop after fewer
\* than 20 evaluations ended it on such an evaluation.
C9_LoopBounds ==
    /\ [](InCls => evals <= MaxIter)
    /\ [](InCls /\ pc \in {"check", "store"} => evals >= 1)
    /\ [](InCls /\ pc = "store" /\ evals < MaxIter => IsConverged(cl_error))
    /\ [][(pc = "check" /\ IsConverged(cl_error)) =>
             pc' = "store" /\ alpha_guess' = alpha_guess /\ ncalls' = ncalls]_vars
    /\ [][(pc = "check" /\ ~IsConverged(cl_error) /\ evals < MaxIter) =>
             pc' = "eval"]_vars
    /\ [][pc = "store" => alpha_guess' = alpha_guess /\ ncalls' = ncalls]_vars

\* C9 witness: a station converged after several evaluations, short of 20.
C9_Witness ==
    /\ pc = "store" /\ IsConverged(cl_error) /\ evals > 5 /\ evals < MaxIter

\* C10 as stated: every alpha passed to the evaluator, the first call of a
\* station included, lies in [-20, 20], and so does every alpha returned.
C10_EveryAlphaInRange ==
    InCls =>
        /\ evals > 0 => InRange(eval_alpha)
        /\ \A k \in 1..Len(results.alpha) : InRange(results.alpha[k])

\* C10 amended: every alpha passed to the evaluator after the first call of a
\* station lies in [-20, 20]; the first call is made with the unclamped
\* target_cl * 10.0; a returned alpha lies in [-20, 20] unless it is that
\* unclamped first guess.
C10_AlphaInRangeAfterFirstCall ==
    InCls =>
        /\ evals > 1 => InRange(eval_alpha)
        /\ (evals = 1 /\ pc = "check") => eval_alpha = InitialGuess(target_cl)
        /\ \A k \in 1..Len(results.alpha) :
              \/ InRange(results.alpha[k])
              \/ /\ results.alpha[k] = InitialGuess(cl_values[k])
                 /\ results.alpha[k] = point_alpha[k]

\* C10 witness: target 100 converged at its first evaluation, made at
\* alpha = 1000 degrees, and that alpha was stored.
C10_Witness ==
    /\ InCls /\ Len(results.alpha) >= 1 /\ cl_values[1] = 200000
    /\ results.alpha[1] = 2000000

====
